---------------------------- MODULE Spec2Model ----------------------------
(***************************************************************************)
(* Model of apertools/los.py: line-of-sight (LOS) / East-North-Up (ENU)    *)
(* geometry.  The module is a library of functions; a behaviour is one     *)
(* call: Init is the idle interpreter, each action is one call of one      *)
(* function with its arguments drawn from bounded sets, and the state      *)
(* after the action records the call and what it returned or raised.       *)
(*                                                                         *)
(* Numbers.  numpy float64 values are modelled by exact extended           *)
(* rationals <<n, d>>: d > 0 is the fraction n/d in lowest terms, <<0,0>>  *)
(* is NaN and <<1,0>>, <<-1,0>> are +Inf, -Inf, with the IEEE rules for    *)
(* x/0, 0/0, Inf*0 and Inf-Inf.  Rounding error is not modelled: sin and   *)
(* cos are taken at multiples of a quarter turn, where they are 0, 1, -1.  *)
(*                                                                         *)
(* Arrays.  A numpy ndarray is [shape, flat]: its shape tuple and its      *)
(* C-order (row-major) buffer.  Indices in the Get/At operators are        *)
(* zero-based, as in the source.                                           *)
(***************************************************************************)
EXTENDS Integers, Sequences, FiniteSets, TLC

VARIABLES
    pc,     \* "idle" before the call, "done" after it
    call,   \* [fn |-> function name, ...arguments]
    ret     \* [status |-> "ok" or the exception raised, value |-> result]

vars == <<pc, call, ret>>

-----------------------------------------------------------------------------
(* Python values *)

\* Python's None; an optional argument is None or Some(v)
None == <<>>

Some(v) == <<v>>

Val(opt) == opt[1]

Ok(v) == [status |-> "ok", value |-> v]

Raise(exc) == [status |-> exc, value |-> None]

-----------------------------------------------------------------------------
(* float arithmetic, exact *)

Abs(x) == IF x < 0 THEN -x ELSE x

Sign(x) == IF x < 0 THEN -1 ELSE IF x > 0 THEN 1 ELSE 0

RECURSIVE GCD(_, _)
GCD(a, b) == IF b = 0 THEN a ELSE GCD(b, a % b)

Norm(n, d) ==
    IF d = 0 THEN <<Sign(n), 0>>
    ELSE LET g == GCD(Abs(n), Abs(d))
             s == IF d < 0 THEN -1 ELSE 1
         IN  <<s * (n \div g), s * (d \div g)>>

R(k) == <<k, 1>>

NaN == <<0, 0>>

IsNaN(a) == a = NaN

IsInf(a) == a[2] = 0 /\ a[1] # 0

IsFinite(a) == a[2] # 0

RNeg(a) == <<-a[1], a[2]>>

RAdd(a, b) ==
    IF IsNaN(a) \/ IsNaN(b) THEN NaN
    ELSE IF IsInf(a) /\ IsInf(b) THEN (IF a = b THEN a ELSE NaN)
    ELSE IF IsInf(a) THEN a
    ELSE IF IsInf(b) THEN b
    ELSE Norm(a[1] * b[2] + b[1] * a[2], a[2] * b[2])

RSub(a, b) == RAdd(a, RNeg(b))

RMul(a, b) ==
    IF IsNaN(a) \/ IsNaN(b) THEN NaN
    ELSE Norm(a[1] * b[1], a[2] * b[2])

RDiv(a, b) ==
    IF IsNaN(a) \/ IsNaN(b) THEN NaN
    ELSE Norm(a[1] * b[2], a[2] * b[1])

RAbs(a) == <<Abs(a[1]), a[2]>>

\* a < b for finite a, b
RLess(a, b) == a[1] * b[2] < b[1] * a[2]

ISqrt(n) == CHOOSE r \in 0..n : r * r = n

\* np.sqrt on the perfect squares the model's inputs produce
RSqrt(a) == <<ISqrt(a[1]), ISqrt(a[2])>>

RECURSIVE RSum(_)
RSum(s) == IF s = <<>> THEN R(0) ELSE RAdd(Head(s), RSum(Tail(s)))

-----------------------------------------------------------------------------
(* numpy arrays *)

RECURSIVE Prod(_)
Prod(s) == IF s = <<>> THEN 1 ELSE Head(s) * Prod(Tail(s))

Arr1(seq) == [shape |-> <<Len(seq)>>, flat |-> seq]

\* a 2-D array from its rows
RECURSIVE Concat(_)
Concat(rows) == IF rows = <<>> THEN <<>> ELSE Head(rows) \o Concat(Tail(rows))

Arr2(rows) ==
    [shape |-> <<Len(rows), IF rows = <<>> THEN 0 ELSE Len(rows[1])>>,
     flat  |-> Concat(rows)]

Ndim(a) == Len(a.shape)

Get1(a, i) == a.flat[i + 1]

Get2(a, i, j) == a.flat[i * a.shape[2] + j + 1]

Get3(a, t, r, c) == a.flat[(t * a.shape[2] + r) * a.shape[3] + c + 1]

\* a[i, :] of a 2-D array
Row(a, i) == Arr1([j \in 1..a.shape[2] |-> Get2(a, i, j - 1)])

\* a[:, j] of a 2-D array
Col(a, j) == Arr1([i \in 1..a.shape[1] |-> Get2(a, i - 1, j)])

\* a.reshape(-1)
Flatten(a) == [shape |-> <<Prod(a.shape)>>, flat |-> a.flat]

\* a.reshape(shape)
Reshape(a, shape) == [shape |-> shape, flat |-> a.flat]

\* np.vstack of two 1-D arrays of one length
VStack(a, b) == [shape |-> <<2, a.shape[1]>>, flat |-> a.flat \o b.flat]

\* np.dot / np.matmul of a 1-D array with a 1-D array: a scalar
Dot11(a, b) == RSum([i \in 1..a.shape[1] |-> RMul(a.flat[i], b.flat[i])])

\* np.dot(a, b): a is 1-D; b is 1-D (scalar result) or 2-D (1-D result, one
\* entry per column of b)
np_dot(a, b) ==
    IF Ndim(b) = 1 THEN Dot11(a, b)
    ELSE Arr1([j \in 1..b.shape[2] |-> Dot11(a, Col(b, j - 1))])

\* np.matmul(A, x): A is 2-D; x is 1-D (1-D result) or 2-D (2-D result)
np_matmul(A, x) ==
    IF Ndim(x) = 1
    THEN Arr1([i \in 1..A.shape[1] |-> Dot11(Row(A, i - 1), x)])
    ELSE Arr2([i \in 1..A.shape[1] |->
                 [j \in 1..x.shape[2] |-> Dot11(Row(A, i - 1), Col(x, j - 1))]])

\* np.linalg.norm of a 1-D array
np_linalg_norm(v) == RSqrt(Dot11(v, v))

\* the array divided by a scalar, elementwise
ArrDiv(a, s) == [shape |-> a.shape, flat |-> [i \in 1..Len(a.flat) |-> RDiv(a.flat[i], s)]]

HasNaN(a) == \E i \in 1..Len(a.flat) : ~IsFinite(a.flat[i])

\* the integer vector as a float array
Vec(s) == Arr1([i \in 1..Len(s) |-> R(s[i])])


-----------------------------------------------------------------------------
(* bounds of the inputs *)

\* angles run over -MaxQuarter..MaxQuarter quarter turns
MaxQuarter == 4

\* XYZ components run over -MaxCoord..MaxCoord
MaxCoord == 1

\* batches (3,k) and point lists hold at most MaxBatch entries
MaxBatch == 2

Coords == (-MaxCoord)..MaxCoord

\* 3-vectors, as 1-D arrays
Vec3 == {Vec(<<x, y, z>>) : x \in Coords, y \in Coords, z \in Coords}

\* sequences over S of length lo..hi
SeqsOf(S, lo, hi) == UNION {[1..n -> S] : n \in lo..hi}

\* a (3,k) array from its k columns (integer 3-vectors)
FromCols(cols) ==
    Arr2([i \in 1..3 |-> [j \in 1..Len(cols) |-> R(cols[j][i])]])

\* (3,k) batches of the axis unit vectors
Batches ==
    {FromCols(cols) : cols \in SeqsOf({<<1, 0, 0>>, <<0, 1, 0>>, <<0, 0, 1>>}, 1, MaxBatch)}

\* degrees
DegAngles == {R(90 * k) : k \in (-MaxQuarter)..MaxQuarter}

\* radians, as multiples of pi
RadAngles == {Norm(k, 2) : k \in (-MaxQuarter)..MaxQuarter}

\* radians of angles between the quarter turns: <<c, s, d>> is the angle of the
\* point (c/d, s/d) of the unit circle, c*c + s*s = d*d
CircleAngles ==
    {t \in {<<c, s, 5>> : c \in -4..4, s \in -4..4} :
        t[1] * t[1] + t[2] * t[2] = t[3] * t[3]}

Lats == {R(-90), R(0), R(90)}

Lons == {R(-180), R(-90), R(0), R(90), R(180)}

-----------------------------------------------------------------------------
(* los.py: rotations *)

\* np.deg2rad; radians are kept as a multiple of pi
deg2rad(angle) == RDiv(angle, R(180))

\* number of quarter turns, mod 4, of an angle given as a multiple of pi
Quarter(x) == ((2 * x[1]) \div x[2]) % 4

cos(x) ==
    IF Len(x) = 3 THEN Norm(x[1], x[3])
    ELSE R(CASE Quarter(x) = 0 -> 1 [] Quarter(x) = 1 -> 0
             [] Quarter(x) = 2 -> -1 [] Quarter(x) = 3 -> 0)

sin(x) ==
    IF Len(x) = 3 THEN Norm(x[2], x[3])
    ELSE R(CASE Quarter(x) = 0 -> 0 [] Quarter(x) = 1 -> 1
             [] Quarter(x) = 2 -> 0 [] Quarter(x) = 3 -> -1)

np_eye3 == Arr2(<<<<R(1), R(0), R(0)>>, <<R(0), R(1), R(0)>>, <<R(0), R(0), R(1)>>>>)

\* R[i, j] = v
Set2(a, i, j, v) == [a EXCEPT !.flat[i * a.shape[2] + j + 1] = v]

\* the two sines with their signs exchanged
rot_transposed(angle, axis, in_degrees) ==
    LET ang  == IF in_degrees THEN deg2rad(angle) ELSE angle
        cang == cos(ang)
        sang == sin(ang)
        E    == np_eye3
    IN  IF axis = 1
        THEN Ok(Set2(Set2(Set2(Set2(E, 1, 1, cang), 2, 2, cang), 1, 2, RNeg(sang)),
                     2, 1, sang))
        ELSE IF axis = 2
        THEN Ok(Set2(Set2(Set2(Set2(E, 0, 0, cang), 2, 2, cang), 0, 2, sang),
                     2, 0, RNeg(sang)))
        ELSE IF axis = 3
        THEN Ok(Set2(Set2(Set2(Set2(E, 0, 0, cang), 1, 1, cang), 1, 0, sang),
                     0, 1, RNeg(sang)))
        ELSE Raise("ValueError")

\* both sines written with the same sign
rot_same_sign(angle, axis, in_degrees) ==
    LET ang  == IF in_degrees THEN deg2rad(angle) ELSE angle
        cang == cos(ang)
        sang == sin(ang)
        E    == np_eye3
    IN  IF axis = 1
        THEN Ok(Set2(Set2(Set2(Set2(E, 1, 1, cang), 2, 2, cang), 1, 2, sang),
                     2, 1, sang))
        ELSE IF axis = 2
        THEN Ok(Set2(Set2(Set2(Set2(E, 0, 0, cang), 2, 2, cang), 0, 2, sang),
                     2, 0, sang))
        ELSE IF axis = 3
        THEN Ok(Set2(Set2(Set2(Set2(E, 0, 0, cang), 1, 1, cang), 1, 0, sang),
                     0, 1, sang))
        ELSE Raise("ValueError")

\* without the final else: any other axis leaves R the identity
rot_no_else(angle, axis, in_degrees) ==
    LET ang  == IF in_degrees THEN deg2rad(angle) ELSE angle
        cang == cos(ang)
        sang == sin(ang)
        E    == np_eye3
    IN  IF axis = 1
        THEN Ok(Set2(Set2(Set2(Set2(E, 1, 1, cang), 2, 2, cang), 1, 2, sang),
                     2, 1, RNeg(sang)))
        ELSE IF axis = 2
        THEN Ok(Set2(Set2(Set2(Set2(E, 0, 0, cang), 2, 2, cang), 0, 2, RNeg(sang)),
                     2, 0, sang))
        ELSE IF axis = 3
        THEN Ok(Set2(Set2(Set2(Set2(E, 0, 0, cang), 1, 1, cang), 1, 0, RNeg(sang)),
                     0, 1, sang))
        ELSE Ok(E)

rot(angle, axis, in_degrees) ==
    LET ang  == IF in_degrees THEN deg2rad(angle) ELSE angle
        cang == cos(ang)
        sang == sin(ang)
        E    == np_eye3
    IN  IF axis = 1
        THEN Ok(Set2(Set2(Set2(Set2(E, 1, 1, cang), 2, 2, cang), 1, 2, sang),
                     2, 1, RNeg(sang)))
        ELSE IF axis = 2
        THEN Ok(Set2(Set2(Set2(Set2(E, 0, 0, cang), 2, 2, cang), 0, 2, RNeg(sang)),
                     2, 0, sang))
        ELSE IF axis = 3
        THEN Ok(Set2(Set2(Set2(Set2(E, 0, 0, cang), 1, 1, cang), 1, 0, RNeg(sang)),
                     0, 1, sang))
        ELSE Raise("ValueError")

\* the two rotations applied in the other order
rotate_xyz_to_enu_swapped(xyz, lat, lon) ==
    LET R3 == rot(RAdd(R(90), lon), 3, TRUE)
        R1 == rot(RSub(R(90), lat), 1, TRUE)
    IN  Ok(np_matmul(R3.value, np_matmul(R1.value, xyz)))

rotate_xyz_to_enu(xyz, lat, lon) ==
    LET R3 == rot(RAdd(R(90), lon), 3, TRUE)
        R1 == rot(RSub(R(90), lat), 1, TRUE)
    IN  Ok(np_matmul(R1.value, np_matmul(R3.value, xyz)))

\* zip(lat_lons, xyz_array) stops at the shorter sequence
ZipLen(a, b) == IF Len(a) < Len(b) THEN Len(a) ELSE Len(b)

\* np.array of a list of 1-D arrays of length 3 (the empty list gives shape (0,))
np_array(rows) ==
    IF rows = <<>> THEN Arr1(<<>>)
    ELSE Arr2([i \in 1..Len(rows) |-> rows[i].flat])

convert_xyz_latlon_to_enu(lat_lons, xyz_array) ==
    Ok(np_array([i \in 1..ZipLen(lat_lons, xyz_array) |->
                   rotate_xyz_to_enu(xyz_array[i], lat_lons[i][1], lat_lons[i][2]).value]))

los_to_enu(lat_lons, xyz_los_vecs) == convert_xyz_latlon_to_enu(lat_lons, xyz_los_vecs)

-----------------------------------------------------------------------------
(* calls *)

Init ==
    /\ pc = "idle"
    /\ call = [fn |-> "none"]
    /\ ret = [status |-> "none", value |-> None]

Call_rot ==
    /\ pc = "idle"
    /\ \E in_degrees \in BOOLEAN, axis \in -1..4 :
       \E angle \in (IF in_degrees THEN DegAngles ELSE RadAngles \cup CircleAngles) :
          /\ call' = [fn |-> "rot", angle |-> angle, axis |-> axis,
                      in_degrees |-> in_degrees]
          /\ ret' = rot(angle, axis, in_degrees)
    /\ pc' = "done"

Call_rotate_xyz_to_enu ==
    /\ pc = "idle"
    /\ \E xyz \in Vec3 \cup Batches, lat \in Lats, lon \in Lons :
          /\ call' = [fn |-> "rotate_xyz_to_enu", xyz |-> xyz, lat |-> lat, lon |-> lon]
          /\ ret' = rotate_xyz_to_enu(xyz, lat, lon)
    /\ pc' = "done"

\* the points and vectors of the batch conversion
Points == {<<R(0), R(0)>>, <<R(0), R(90)>>, <<R(90), R(0)>>}

UnitVecs == {Vec(<<1, 0, 0>>), Vec(<<0, 1, 0>>), Vec(<<0, 0, 1>>)}

Call_convert_xyz_latlon_to_enu ==
    /\ pc = "idle"
    /\ \E lat_lons \in SeqsOf(Points, 0, MaxBatch),
          xyz_array \in SeqsOf(UnitVecs, 0, MaxBatch) :
          /\ call' = [fn |-> "convert_xyz_latlon_to_enu", lat_lons |-> lat_lons,
                      xyz_array |-> xyz_array]
          /\ ret' = convert_xyz_latlon_to_enu(lat_lons, xyz_array)
    /\ pc' = "done"

Call_los_to_enu ==
    /\ pc = "idle"
    /\ \E lat_lons \in SeqsOf(Points, 0, MaxBatch),
          xyz_los_vecs \in SeqsOf(UnitVecs, 0, MaxBatch) :
          /\ call' = [fn |-> "los_to_enu", lat_lons |-> lat_lons,
                      xyz_los_vecs |-> xyz_los_vecs]
          /\ ret' = los_to_enu(lat_lons, xyz_los_vecs)
    /\ pc' = "done"

NextRot ==
    \/ Call_rot
    \/ Call_rotate_xyz_to_enu
    \/ Call_convert_xyz_latlon_to_enu
    \/ Call_los_to_enu

SpecRot == Init /\ [][NextRot]_vars


-----------------------------------------------------------------------------
(* C1 *)

\* R1(90 - lat) . R3(90 + lon) . v written out component by component, with
\* R3(a) = [[c,s,0],[-s,c,0],[0,0,1]] and R1(a) = [[1,0,0],[0,c,s],[0,-s,c]]
C1_Expected(v, lat, lon) ==
    LET c3 == cos(deg2rad(RAdd(R(90), lon)))
        s3 == sin(deg2rad(RAdd(R(90), lon)))
        c1 == cos(deg2rad(RSub(R(90), lat)))
        s1 == sin(deg2rad(RSub(R(90), lat)))
        a  == RAdd(RMul(c3, v[1]), RMul(s3, v[2]))
        b  == RAdd(RMul(RNeg(s3), v[1]), RMul(c3, v[2]))
        c  == v[3]
    IN  <<a, RAdd(RMul(c1, b), RMul(s1, c)), RAdd(RMul(RNeg(s1), b), RMul(c1, c))>>

\* C1: rotate_xyz_to_enu(xyz, lat, lon) is R1(90-lat) applied to R3(90+lon)
\* applied to xyz (to every column of a (3,k) batch), and at lat = 0, lon = 0
\* the X unit vector goes to Up [0,0,1], Y to East [1,0,0], Z to North [0,1,0].
C1_RotateIsR1R3 ==
    (pc = "done" /\ call.fn = "rotate_xyz_to_enu") =>
        /\ ret.status = "ok"
        /\ ret.value.shape = call.xyz.shape
        /\ Ndim(call.xyz) = 1 =>
              ret.value.flat = C1_Expected(call.xyz.flat, call.lat, call.lon)
        /\ Ndim(call.xyz) = 2 =>
              \A j \in 0..(call.xyz.shape[2] - 1) :
                 Col(ret.value, j).flat =
                    C1_Expected(Col(call.xyz, j).flat, call.lat, call.lon)
        /\ (call.lat = R(0) /\ call.lon = R(0)) =>
              /\ call.xyz = Vec(<<1, 0, 0>>) => ret.value = Vec(<<0, 0, 1>>)
              /\ call.xyz = Vec(<<0, 1, 0>>) => ret.value = Vec(<<1, 0, 0>>)
              /\ call.xyz = Vec(<<0, 0, 1>>) => ret.value = Vec(<<0, 1, 0>>)

\* the X unit vector rotated at lat = 0, lon = 0 came out as Up
C1_Witness ==
    /\ pc = "done"
    /\ call.fn = "rotate_xyz_to_enu"
    /\ call.xyz = Vec(<<1, 0, 0>>)
    /\ call.lat = R(0)
    /\ call.lon = R(0)
    /\ ret.value = Vec(<<0, 0, 1>>)


-----------------------------------------------------------------------------
(* C6 *)

\* C6: convert_xyz_latlon_to_enu and los_to_enu raise an error whenever the
\* points and the vectors differ in length.
C6_LengthMismatchRaises ==
    /\ (pc = "done" /\ call.fn = "convert_xyz_latlon_to_enu"
                    /\ Len(call.lat_lons) # Len(call.xyz_array)) =>
           ret.status # "ok"
    /\ (pc = "done" /\ call.fn = "los_to_enu"
                    /\ Len(call.lat_lons) # Len(call.xyz_los_vecs)) =>
           ret.status # "ok"

-----------------------------------------------------------------------------
(* los.py: projection onto the line of sight *)

\* LOS vector components run over -MaxLos..MaxLos
MaxLos == 2

\* with "if los_vec is not None" as the test: a LOS vector overrides the
\* coefficients supplied
project_enu_to_los_los_first(enu, los_vec, lat, lon, enu_coeffs) ==
    IF los_vec # <<>>
    THEN LET los_hat == ArrDiv(Val(los_vec), np_linalg_norm(Val(los_vec)))
             coeffs  == rotate_xyz_to_enu(los_hat, Val(lat), Val(lon)).value
         IN  Ok(np_dot(coeffs, enu))
    ELSE IF enu_coeffs = <<>> THEN Raise("TypeError")
    ELSE Ok(np_dot(Val(enu_coeffs), enu))

project_enu_to_los(enu, los_vec, lat, lon, enu_coeffs) ==
    IF enu_coeffs = <<>>
    THEN IF los_vec = <<>>
         THEN Raise("TypeError")    \* np.linalg.norm(None)
         ELSE LET los_hat == ArrDiv(Val(los_vec), np_linalg_norm(Val(los_vec)))
                  coeffs  == rotate_xyz_to_enu(los_hat, Val(lat), Val(lon)).value
              IN  Ok(np_dot(coeffs, enu))
    ELSE Ok(np_dot(Val(enu_coeffs), enu))

\* ENU vectors, also the columns of the (3,k) ENU batches
EnuCols == {<<1, 2, 3>>, <<3, 1, 2>>, <<0, 1, 0>>, <<2, 2, 2>>}

EnuVecs == {Vec(v) : v \in EnuCols}

EnuBatches == {FromCols(cols) : cols \in SeqsOf(EnuCols, 1, MaxBatch)}

IsSquare(n) == \E r \in 0..n : r * r = n

\* LOS vectors whose length is rational, the zero vector among them
LosVecs ==
    {Vec(<<x, y, z>>) : <<x, y, z>> \in
        {v \in ((-MaxLos)..MaxLos) \X ((-MaxLos)..MaxLos) \X ((-MaxLos)..MaxLos) :
            IsSquare(v[1] * v[1] + v[2] * v[2] + v[3] * v[3])}}

\* the arguments of a call <<enu, los_vec, lat, lon, enu_coeffs>>: coefficients
\* alone, a LOS vector and a point alone, both, neither
ProjectArgs ==
    (EnuVecs \X {<<>>} \X {<<>>} \X {<<>>} \X {Some(c) : c \in Vec3})
    \cup (EnuBatches \X {<<>>} \X {<<>>} \X {<<>>}
            \X {Some(c) : c \in UnitVecs \cup {Vec(<<1, 1, 0>>)}})
    \cup (EnuVecs \X {Some(v) : v \in LosVecs} \X {Some(x) : x \in Lats}
            \X {Some(R(-90)), Some(R(0)), Some(R(90))} \X {<<>>})
    \cup ({Vec(<<1, 2, 3>>)} \X {Some(v) : v \in UnitVecs} \X {Some(R(0))}
            \X {Some(R(0))} \X {Some(c) : c \in Vec3})
    \cup (EnuVecs \X {<<>>} \X {<<>>} \X {<<>>} \X {<<>>})

Call_project_enu_to_los ==
    /\ pc = "idle"
    /\ \E a \in ProjectArgs :
          /\ call' = [fn |-> "project_enu_to_los", enu |-> a[1], los_vec |-> a[2],
                      lat |-> a[3], lon |-> a[4], enu_coeffs |-> a[5]]
          /\ ret' = project_enu_to_los(a[1], a[2], a[3], a[4], a[5])
    /\ pc' = "done"

NextProj == Call_project_enu_to_los

SpecProj == Init /\ [][NextProj]_vars


-----------------------------------------------------------------------------
(* C7 *)

\* C7: project_enu_to_los with a LOS vector of norm zero and no coefficients
\* raises an error.
C7_ZeroVectorRaises ==
    (pc = "done" /\ call.fn = "project_enu_to_los" /\ call.enu_coeffs = <<>>
                 /\ call.los_vec = Some(Vec(<<0, 0, 0>>))) =>
        ret.status # "ok"

-----------------------------------------------------------------------------
(* C8 *)

\* the call project_enu_to_los([1,2,3], los_vec, 0, 0) of the docstring
C8_DocCall(los_vec) ==
    /\ pc = "done"
    /\ call.fn = "project_enu_to_los"
    /\ call.enu = Vec(<<1, 2, 3>>)
    /\ call.los_vec = Some(Vec(los_vec))
    /\ call.lat = Some(R(0))
    /\ call.lon = Some(R(0))
    /\ call.enu_coeffs = <<>>

-----------------------------------------------------------------------------
(* C9 *)

\* c[0]*x + c[1]*y + c[2]*z
C9_Sum(c, x, y, z) ==
    RAdd(RAdd(RMul(Get1(c, 0), x), RMul(Get1(c, 1), y)), RMul(Get1(c, 2), z))

\* C9: with enu_coeffs supplied the result is the dot product of enu_coeffs
\* with enu, not normalised; a (3,k) batch gives k values, the j-th being the
\* dot product with column j; enu = [1,2,3] gives 1, 2, 3 for the
\* coefficients [1,0,0], [0,1,0], [0,0,1].
C9_DotWithCoeffs ==
    (pc = "done" /\ call.fn = "project_enu_to_los" /\ call.enu_coeffs # <<>>) =>
        LET c   == Val(call.enu_coeffs)
            enu == call.enu
        IN  /\ ret.status = "ok"
            /\ Ndim(enu) = 1 =>
                  /\ ret.value = C9_Sum(c, Get1(enu, 0), Get1(enu, 1), Get1(enu, 2))
                  /\ enu = Vec(<<1, 2, 3>>) =>
                        /\ c = Vec(<<1, 0, 0>>) => ret.value = R(1)
                        /\ c = Vec(<<0, 1, 0>>) => ret.value = R(2)
                        /\ c = Vec(<<0, 0, 1>>) => ret.value = R(3)
            /\ Ndim(enu) = 2 =>
                  /\ ret.value.shape = <<enu.shape[2]>>
                  /\ \A j \in 0..(enu.shape[2] - 1) :
                        Get1(ret.value, j) =
                           C9_Sum(c, Get2(enu, 0, j), Get2(enu, 1, j), Get2(enu, 2, j))

\* a batch of two different columns was projected onto coefficients that are
\* not of unit length
C9_Witness ==
    /\ pc = "done"
    /\ call.fn = "project_enu_to_los"
    /\ call.enu_coeffs = Some(Vec(<<1, 1, 0>>))
    /\ call.enu = FromCols(<<<<1, 2, 3>>, <<3, 1, 2>>>>)
    /\ ret = Ok(Vec(<<3, 4>>))


-----------------------------------------------------------------------------
(* los.py: coefficient lookup *)

\* grid samples are drawn from 0..MaxSample
MaxSample == 3

\* a grid axis holds 1..MaxGrid samples
MaxGrid == 2

\* ndarray.argmin(): the first index of the least entry
argmin(a) ==
    CHOOSE i \in 0..(a.shape[1] - 1) :
        /\ \A j \in 0..(a.shape[1] - 1) : ~RLess(Get1(a, j), Get1(a, i))
        /\ \A j \in 0..(i - 1) : RLess(Get1(a, i), Get1(a, j))

\* np.abs(array - value)
AbsDiff(array, value) ==
    Arr1([i \in 1..array.shape[1] |-> RAbs(RSub(array.flat[i], value))])

_find_nearest(array, value) ==
    LET idx == argmin(AbsDiff(array, value))
    IN  Ok(Get1(array, idx))

\* dataset[:, row, col] of an h5py dataset of shape (3, nrows, ncols): the
\* indices must be of an integer type and in range
h5_getitem(f, row, col) ==
    IF f.dtype # "int" THEN Raise("TypeError")
    ELSE IF ~(row[1] \in 0..(f.stack.shape[2] - 1) /\ col[1] \in 0..(f.stack.shape[3] - 1))
    THEN Raise("IndexError")
    ELSE Ok(Arr1([k \in 1..f.stack.shape[1] |-> Get3(f.stack, k - 1, row[1], col[1])]))

_read_los_map_file(los_map_file, lat, lon) ==
    LET f    == los_map_file
        lats == f.lats
        lons == f.lons
        row  == _find_nearest(lats, lat).value
        col  == _find_nearest(lons, lon).value
    IN  h5_getitem(f, row, col)

find_enu_coeffs(lon, lat, los_map_file) ==
    IF los_map_file # None
    THEN _read_los_map_file(Val(los_map_file), lat, lon)
    ELSE Ok(None)    \* the function ends without a return

\* ascending sample axes
Axes ==
    {a \in SeqsOf(0..MaxSample, 1, MaxGrid) : \A i \in 1..(Len(a) - 1) : a[i] < a[i + 1]}

\* a coefficient stack of shape (3, nrows, ncols) whose entry [k, r, c] is
\* 100 k + 10 r + c, so that every entry tells its own index
LabelStack(nrows, ncols) ==
    [shape |-> <<3, nrows, ncols>>,
     flat  |-> [i \in 1..(3 * nrows * ncols) |->
                  R(100 * ((i - 1) \div (nrows * ncols))
                    + 10 * (((i - 1) \div ncols) % nrows)
                    + ((i - 1) % ncols))]]

MapFile(dtype, la, lo) ==
    [dtype |-> dtype, lats |-> Vec(la), lons |-> Vec(lo),
     stack |-> LabelStack(Len(la), Len(lo))]

\* the lookup files: samples stored as integers, on every pair of axes; and
\* samples stored as floats
MapFiles ==
    {MapFile("int", la, lo) : la \in Axes, lo \in Axes}
    \cup {MapFile("float", la, <<0, 1>>) : la \in Axes}

\* the files find_enu_coeffs is called with
SomeMapFiles == {MapFile(t, la, <<0, 1>>) : t \in {"int", "float"}, la \in Axes}

Samples == {R(k) : k \in 0..MaxSample}

Call__find_nearest ==
    /\ pc = "idle"
    /\ \E a \in Axes, value \in Samples :
          /\ call' = [fn |-> "_find_nearest", array |-> Vec(a), value |-> value]
          /\ ret' = _find_nearest(Vec(a), value)
    /\ pc' = "done"

Call__read_los_map_file ==
    /\ pc = "idle"
    /\ \E f \in MapFiles, lat \in Samples, lon \in {R(0), R(1)} :
          /\ call' = [fn |-> "_read_los_map_file", los_map_file |-> f,
                      lat |-> lat, lon |-> lon]
          /\ ret' = _read_los_map_file(f, lat, lon)
    /\ pc' = "done"

Call_find_enu_coeffs ==
    /\ pc = "idle"
    /\ \E f \in {None} \cup {Some(m) : m \in SomeMapFiles}, lat \in Samples,
          lon \in {R(0), R(1)} :
          /\ call' = [fn |-> "find_enu_coeffs", lon |-> lon, lat |-> lat,
                      los_map_file |-> f]
          /\ ret' = find_enu_coeffs(lon, lat, f)
    /\ pc' = "done"

NextLookup ==
    \/ Call__find_nearest
    \/ Call__read_los_map_file
    \/ Call_find_enu_coeffs

SpecLookup == Init /\ [][NextLookup]_vars

-----------------------------------------------------------------------------
(* C4 *)

\* i is the index of a sample of the axis that is closest to value
C4_Closest(axis, value, i) ==
    /\ i \in 0..(axis.shape[1] - 1)
    /\ \A j \in 0..(axis.shape[1] - 1) :
          ~RLess(RAbs(RSub(Get1(axis, j), value)), RAbs(RSub(Get1(axis, i), value)))

\* C4: the lookup at (lat, lon) returns stack[:, r, c] with r the index of the
\* lats sample closest to lat and c the index of the lons sample closest to
\* lon.
C4_NearestNeighbour ==
    (pc = "done" /\ call.fn = "_read_los_map_file") =>
        LET f == call.los_map_file
        IN  /\ ret.status = "ok"
            /\ \E r \in 0..(f.lats.shape[1] - 1), c \in 0..(f.lons.shape[1] - 1) :
                  /\ C4_Closest(f.lats, call.lat, r)
                  /\ C4_Closest(f.lons, call.lon, c)
                  /\ ret.value = Vec(<<10 * r + c, 100 + 10 * r + c, 200 + 10 * r + c>>)

-----------------------------------------------------------------------------
(* C5 *)

\* C5: find_enu_coeffs returns a 3-element vector, never None, whether a
\* lookup source is supplied or not.
C5_AlwaysThreeVector ==
    (pc = "done" /\ call.fn = "find_enu_coeffs") =>
        /\ ret.status = "ok"
        /\ ret.value # None
        /\ ret.value.shape = <<3>>


-----------------------------------------------------------------------------
(* los.py: east / vertical decomposition *)

\* the east and up coefficients lie on the grid k / CoeffDen, -1 <= k/CoeffDen <= 1
CoeffDen == 3

\* coefficient pairs count as near-identical when each component differs by at
\* most 1 / TolDen (the model's stand-in for the 1e-12 of floating point)
TolDen == 100

\* a stack has 1..MaxDim layers, rows and columns
MaxDim == 2

\* deformation values are built from integers in -MaxDef..MaxDef
MaxDef == 1

\* np.linalg.solve(a, b) for a of shape (2,2) and b of shape (2,N): LAPACK
\* gesv, an LU factorisation with partial pivoting, then the two triangular
\* solves for every column of b.  A zero pivot raises LinAlgError.
np_linalg_solve(a, b) ==
    LET swap == RLess(RAbs(Get2(a, 0, 0)), RAbs(Get2(a, 1, 0)))
        p    == IF swap THEN 1 ELSE 0     \* the pivot row
        q    == 1 - p
        l    == RDiv(Get2(a, q, 0), Get2(a, p, 0))
        u11  == RSub(Get2(a, q, 1), RMul(l, Get2(a, p, 1)))
        x1(j) == RDiv(RSub(Get2(b, q, j), RMul(l, Get2(b, p, j))), u11)
        x0(j) == RDiv(RSub(Get2(b, p, j), RMul(Get2(a, p, 1), x1(j))), Get2(a, p, 0))
    IN  IF Get2(a, p, 0) = R(0) THEN Raise("LinAlgError")
        ELSE IF u11 = R(0) THEN Raise("LinAlgError")
        ELSE Ok(Arr2(<<[j \in 1..b.shape[2] |-> x0(j - 1)],
                       [j \in 1..b.shape[2] |-> x1(j - 1)]>>))

\* the assertion compares the number of pixels instead of the shapes
find_vertical_def_size_check(eu_asc, eu_desc, asc_deform, desc_deform) ==
    LET east_up_coeffs == VStack(eu_asc, eu_desc)
        d_asc_desc     == VStack(Flatten(asc_deform), Flatten(desc_deform))
        dd             == np_linalg_solve(east_up_coeffs, d_asc_desc)
    IN  IF Prod(asc_deform.shape) # Prod(desc_deform.shape) THEN Raise("AssertionError")
        ELSE IF dd.status # "ok" THEN dd
        ELSE Ok(<<Reshape(Row(dd.value, 0), asc_deform.shape),
                  Reshape(Row(dd.value, 1), asc_deform.shape)>>)

\* east and vertical taken from the wrong rows of the solution
find_vertical_def_rows_swapped(eu_asc, eu_desc, asc_deform, desc_deform) ==
    LET east_up_coeffs == VStack(eu_asc, eu_desc)
        d_asc_desc     == VStack(Flatten(asc_deform), Flatten(desc_deform))
        dd             == np_linalg_solve(east_up_coeffs, d_asc_desc)
    IN  IF asc_deform.shape # desc_deform.shape THEN Raise("AssertionError")
        ELSE IF dd.status # "ok" THEN dd
        ELSE Ok(<<Reshape(Row(dd.value, 1), asc_deform.shape),
                  Reshape(Row(dd.value, 0), asc_deform.shape)>>)

\* find_vertical_def from line 184 on, given what lines 181-182 and 191-192
\* load (find_east_up_coeffs and sario.load_deformation are not part of
\* los.py): eu_asc, eu_desc are the [alpha_E, alpha_U] pairs, asc_deform,
\* desc_deform the (nlayers, nrows, ncols) stacks.  The result is the pair
\* <<def_east, def_vertical>>.
find_vertical_def(eu_asc, eu_desc, asc_deform, desc_deform) ==
    LET east_up_coeffs == VStack(eu_asc, eu_desc)
        d_asc_desc     == VStack(Flatten(asc_deform), Flatten(desc_deform))
        dd             == np_linalg_solve(east_up_coeffs, d_asc_desc)
    IN  IF asc_deform.shape # desc_deform.shape THEN Raise("AssertionError")
        ELSE IF dd.status # "ok" THEN dd
        ELSE Ok(<<Reshape(Row(dd.value, 0), asc_deform.shape),
                  Reshape(Row(dd.value, 1), asc_deform.shape)>>)

CoeffVals == {Norm(k, CoeffDen) : k \in (-CoeffDen)..CoeffDen}

\* [alpha_E, alpha_U]
CoeffPairs == {Arr1(<<e, u>>) : e \in CoeffVals, u \in CoeffVals}

Shapes == (1..MaxDim) \X (1..MaxDim) \X (1..MaxDim)

DefVals == (-MaxDef)..MaxDef

\* the stack of the given shape whose pixel at flat index i holds v0 + i * d
Stack(shape, v0, d) ==
    [shape |-> shape, flat |-> [i \in 1..Prod(shape) |-> R(v0 + (i - 1) * d)]]

Stacks(shape) == {Stack(shape, v0, d) : v0 \in DefVals, d \in DefVals}

RisingStacks(shape) == {Stack(shape, v0, 1) : v0 \in DefVals}

\* a geometry pair that needs the pivot swap, one that sees east with
\* opposite signs, and an identical pair
SomeGeometries ==
    {<<Arr1(<<Norm(-1, CoeffDen), R(1)>>), Arr1(<<R(1), R(0)>>)>>,
     <<Arr1(<<R(-1), R(1)>>), Arr1(<<R(1), R(1)>>)>>,
     <<Arr1(<<R(1), R(1)>>), Arr1(<<R(1), R(1)>>)>>}

\* a geometry and the same geometry moved by at most 1 / TolDen
NearGeometries ==
    {<<g[1], Arr1(<<RAdd(Get1(g[1], 0), Norm(dx, TolDen)),
                    RAdd(Get1(g[1], 1), Norm(dy, TolDen))>>)>> :
        g \in SomeGeometries, dx \in -1..1, dy \in -1..1}

\* the inputs <<eu_asc, eu_desc, asc_deform, desc_deform>> of a call: a few
\* geometries with pairs of stacks of every shape; every pair of
\* geometries, and the near-identical ones, with one pair of stacks; stacks
\* of two different shapes
VerticalInputs ==
    UNION {{<<g[1], g[2], a, d>> :
               g \in SomeGeometries, a \in Stacks(sh), d \in RisingStacks(sh)} :
              sh \in Shapes}
    \cup {<<ea, ed, Stack(<<1, 1, 2>>, 1, -1), Stack(<<1, 1, 2>>, 0, 1)>> :
              ea \in CoeffPairs, ed \in CoeffPairs}
    \cup {<<g[1], g[2], Stack(<<1, 1, 2>>, 1, -1), Stack(<<1, 1, 2>>, 0, 1)>> :
              g \in NearGeometries}
    \cup {<<g[1], g[2], Stack(s1, 0, 1), Stack(s2, 0, 1)>> :
              g \in SomeGeometries, s1 \in Shapes, s2 \in Shapes}

Call_find_vertical_def ==
    /\ pc = "idle"
    /\ \E a \in VerticalInputs :
          /\ call' = [fn |-> "find_vertical_def", eu_asc |-> a[1], eu_desc |-> a[2],
                      asc_deform |-> a[3], desc_deform |-> a[4]]
          /\ ret' = find_vertical_def(a[1], a[2], a[3], a[4])
    /\ pc' = "done"

NextDecomp == Call_find_vertical_def

SpecDecomp == Init /\ [][NextDecomp]_vars


-----------------------------------------------------------------------------
(* C2 *)

\* the determinant of [[aE_asc, aU_asc], [aE_desc, aU_desc]]
Det(eu_asc, eu_desc) ==
    RSub(RMul(Get1(eu_asc, 0), Get1(eu_desc, 1)), RMul(Get1(eu_asc, 1), Get1(eu_desc, 0)))

\* aE * east + aU * vertical
LosOf(eu, east, vertical) ==
    RAdd(RMul(Get1(eu, 0), east), RMul(Get1(eu, 1), vertical))

TruthVals == {R(k) : k \in DefVals}

-----------------------------------------------------------------------------
(* C3 *)

\* a <= b for finite a, b
RLeq(a, b) == ~RLess(b, a)

\* the two pairs are identical, or differ by at most 1 / TolDen in each
\* component
NearIdentical(eu_asc, eu_desc) ==
    /\ RLeq(RAbs(RSub(Get1(eu_asc, 0), Get1(eu_desc, 0))), Norm(1, TolDen))
    /\ RLeq(RAbs(RSub(Get1(eu_asc, 1), Get1(eu_desc, 1))), Norm(1, TolDen))

-----------------------------------------------------------------------------
(* C10 *)

-----------------------------------------------------------------------------
(* merging two date axes; a date is its day number *)

\* the latest day number on a date axis
MaxDate == 4

\* the longest date axis that need not be in increasing order
MaxDates == 2

\* np.argsort(s, kind='mergesort'): the zero-based positions of s in ascending
\* order of value, equal values in order of position
argsort(s) ==
    LET n == Len(s)
        Rank(i) == Cardinality({j \in 1..n : s[j] < s[i] \/ (s[j] = s[i] /\ j < i)})
    IN  [k \in 1..n |-> (CHOOSE i \in 1..n : Rank(i) = k - 1) - 1]

\* s[idx] for a sequence idx of zero-based positions
Take(s, idx) == [k \in 1..Len(idx) |-> s[idx[k] + 1]]

\* s[mask] for a boolean mask of the length of s
Masked(s, mask) ==
    LET F[k \in 0..Len(s)] ==
            IF k = 0 THEN <<>>
            ELSE IF mask[k] THEN Append(F[k - 1], s[k]) ELSE F[k - 1]
    IN  F[Len(s)]

np_asarray(list) == Arr1(list)

np_concatenate(a, b) == Arr1(a \o b)

\* ndarray.sort()
sort(a) == Arr1(Take(a.flat, argsort(a.flat)))

\* np.unique keeping the position of the last of equal values
np_unique_last(ar) ==
    LET perm == argsort(ar.flat)
        aux  == Take(ar.flat, perm)
        mask == [k \in 1..Len(aux) |-> k = Len(aux) \/ aux[k] # aux[k + 1]]
    IN  <<Arr1(Masked(aux, mask)), Arr1(Masked(perm, mask))>>

\* np.unique(ar, return_index=True): the sorted distinct values and, for each,
\* the position of its first occurrence in ar
np_unique(ar) ==
    LET perm == argsort(ar.flat)
        aux  == Take(ar.flat, perm)
        mask == [k \in 1..Len(aux) |-> k = 1 \/ aux[k] # aux[k - 1]]
    IN  <<Arr1(Masked(aux, mask)), Arr1(Masked(perm, mask))>>

\* np.intersect1d(ar1, ar2, return_indices=True): the sorted common values and
\* the positions of their first occurrences in ar1 and in ar2
np_intersect1d(ar1, ar2) ==
    LET u1     == np_unique(ar1)
        u2     == np_unique(ar2)
        aux    == u1[1].flat \o u2[1].flat
        order  == argsort(aux)
        sorted == Take(aux, order)
        n      == Len(aux)
        mask   == [k \in 1..(n - 1) |-> sorted[k + 1] = sorted[k]]
        first  == Masked(SubSeq(order, 1, n - 1), mask)
        second == Masked(SubSeq(order, 2, n), mask)
    IN  <<Arr1(Masked(SubSeq(sorted, 1, n - 1), mask)),
          Arr1(Take(u1[2].flat, first)),
          Arr1(Take(u2[2].flat, [k \in 1..Len(second) |-> second[k] - Len(u1[1].flat)]))>>

\* the merged axis without the dates that occur twice
merge_geolists_dedup(geolist1, geolist2) ==
    LET merged_geolist == np_unique(np_concatenate(geolist1, geolist2))[1]
    IN  Ok(<<merged_geolist,
             np_intersect1d(merged_geolist, np_asarray(geolist1))[2],
             np_intersect1d(merged_geolist, np_asarray(geolist2))[2]>>)

\* the index maps taken as positions in the input axes
merge_geolists_input_indices(geolist1, geolist2) ==
    LET merged_geolist == sort(np_concatenate(geolist1, geolist2))
    IN  Ok(<<merged_geolist,
             np_intersect1d(merged_geolist, np_asarray(geolist1))[3],
             np_intersect1d(merged_geolist, np_asarray(geolist2))[3]>>)

merge_geolists(geolist1, geolist2) ==
    LET merged_geolist == sort(np_concatenate(geolist1, geolist2))
        indices1 == np_intersect1d(merged_geolist, np_asarray(geolist1))[2]
        indices2 == np_intersect1d(merged_geolist, np_asarray(geolist2))[2]
    IN  Ok(<<merged_geolist, indices1, indices2>>)

Dates == 1..MaxDate

\* the dates of S in increasing order
Ascending(S) ==
    [k \in 1..Cardinality(S) |-> CHOOSE d \in S : Cardinality({e \in S : e < d}) = k - 1]

\* the strictly increasing date axes
StrictAxes == {Ascending(S) : S \in SUBSET Dates}

\* every strictly increasing axis, and every short list of dates in any order
GeoLists == StrictAxes \cup SeqsOf(Dates, 0, MaxDates)

Call_merge_geolists ==
    /\ pc = "idle"
    /\ \E geolist1 \in GeoLists, geolist2 \in GeoLists :
          /\ call' = [fn |-> "merge_geolists", geolist1 |-> geolist1,
                      geolist2 |-> geolist2]
          /\ ret' = merge_geolists(geolist1, geolist2)
    /\ pc' = "done"

NextMerge == Call_merge_geolists

SpecMerge == Init /\ [][NextMerge]_vars

-----------------------------------------------------------------------------
(* C11 *)

\* how often the date d occurs in the sequence s
Count(s, d) == Cardinality({i \in 1..Len(s) : s[i] = d})

\* C11: the merged axis of merge_geolists is the sorted concatenation of the
\* two inputs: it is in non-decreasing order, it has len(geolist1) +
\* len(geolist2) entries, and every date occurs in it as often as in the two
\* inputs together; an axis merged with itself has double length
C11_SortedConcatenation ==
    (pc = "done" /\ call.fn = "merge_geolists") =>
        LET merged == ret.value[1]
        IN  /\ ret.status = "ok"
            /\ merged.shape = <<Len(call.geolist1) + Len(call.geolist2)>>
            /\ Len(merged.flat) = Len(call.geolist1) + Len(call.geolist2)
            /\ \A i \in 1..(Len(merged.flat) - 1) : merged.flat[i] <= merged.flat[i + 1]
            /\ \A d \in Dates :
                  Count(merged.flat, d) = Count(call.geolist1, d) + Count(call.geolist2, d)
            /\ call.geolist1 = call.geolist2 =>
                  Len(merged.flat) = 2 * Len(call.geolist1)

\* the axis <<1, 3>> merged with itself
C11_Witness ==
    /\ pc = "done"
    /\ call.fn = "merge_geolists"
    /\ call.geolist1 = <<1, 3>>
    /\ call.geolist2 = <<1, 3>>
    /\ ret.value[1].flat = <<1, 1, 3, 3>>


-----------------------------------------------------------------------------
(* C12 *)

IsStrictlyIncreasing(s) == \A i \in 1..(Len(s) - 1) : s[i] < s[i + 1]

\* indices has one entry per date of axis, and entry i is a position of the
\* merged axis that holds axis[i]
C12_ValidLookup(merged, indices, axis) ==
    /\ indices.shape = <<Len(axis)>>
    /\ Len(indices.flat) = Len(axis)
    /\ \A i \in 1..Len(axis) :
          /\ indices.flat[i] \in 0..(Len(merged.flat) - 1)
          /\ Get1(merged, indices.flat[i]) = axis[i]

\* C12: for two strictly increasing date axes, which may share dates, each
\* index map of merge_geolists has the length of its axis and entry i is the
\* position in the merged axis of date i of that axis; every date of either
\* axis is in the merged axis
C12_IndexMapsAreLookups ==
    (/\ pc = "done"
     /\ call.fn = "merge_geolists"
     /\ IsStrictlyIncreasing(call.geolist1)
     /\ IsStrictlyIncreasing(call.geolist2)) =>
        /\ ret.status = "ok"
        /\ C12_ValidLookup(ret.value[1], ret.value[2], call.geolist1)
        /\ C12_ValidLookup(ret.value[1], ret.value[3], call.geolist2)
        /\ \A d \in Dates :
              Count(call.geolist1, d) + Count(call.geolist2, d) > 0 =>
                  Count(ret.value[1].flat, d) > 0

\* two axes that interleave and share their last date
C12_Witness ==
    /\ pc = "done"
    /\ call.fn = "merge_geolists"
    /\ call.geolist1 = <<1, 3, 4>>
    /\ call.geolist2 = <<2, 4>>
    /\ ret.value[1].flat = <<1, 2, 3, 4, 4>>
    /\ ret.value[2].flat = <<0, 2, 3>>
    /\ ret.value[3].flat = <<1, 3>>


-----------------------------------------------------------------------------
(* C13 *)

\* row i of the result is vector i rotated at point i
C13_RowsPerPoint ==
    \A i \in 1..Len(call.lat_lons) :
       Row(ret.value, i - 1) =
          rotate_xyz_to_enu(call.xyz_array[i], call.lat_lons[i][1],
                            call.lat_lons[i][2]).value

\* C13: for k points and k vectors convert_xyz_latlon_to_enu returns a (k, 3)
\* array whose row i is rotate_xyz_to_enu of vector i at point i, each vector
\* with its own point and in the order of the input
C13_BatchPerPoint ==
    (/\ pc = "done"
     /\ call.fn = "convert_xyz_latlon_to_enu"
     /\ Len(call.lat_lons) = Len(call.xyz_array)) =>
        /\ ret.status = "ok"
        /\ ret.value.shape = <<Len(call.lat_lons), 3>>
        /\ C13_RowsPerPoint


-----------------------------------------------------------------------------
(* C14 *)

\* the angle of a call of rot, in radians
C14_Radians == IF call.in_degrees THEN deg2rad(call.angle) ELSE call.angle

\* entry (r, q) of the rotation about axis a with cosine c and sine s, for
\* j = a mod 3 and k = (a + 1) mod 3
C14_Entry(a, c, s, r, q) ==
    LET j == a % 3
        k == (a + 1) % 3
    IN  IF (r = j /\ q = j) \/ (r = k /\ q = k) THEN c
        ELSE IF r = j /\ q = k THEN s
        ELSE IF r = k /\ q = j THEN RNeg(s)
        ELSE IF r = q THEN R(1)
        ELSE R(0)

\* C14: for axis a in {1, 2, 3}, with j = a mod 3 and k = (a + 1) mod 3, rot
\* returns the identity except R[j,j] = R[k,k] = cos, R[j,k] = +sin and
\* R[k,j] = -sin; for axis 1 that is R[1,2] = s, R[2,1] = -s, for axis 2
\* R[2,0] = s, R[0,2] = -s, for axis 3 R[0,1] = s, R[1,0] = -s
C14_SignConvention ==
    (pc = "done" /\ call.fn = "rot" /\ call.axis \in {1, 2, 3}) =>
        LET c == cos(C14_Radians)
            s == sin(C14_Radians)
            M == ret.value
        IN  /\ ret.status = "ok"
            /\ M.shape = <<3, 3>>
            /\ \A r \in 0..2, q \in 0..2 :
                  Get2(M, r, q) = C14_Entry(call.axis, c, s, r, q)
            /\ call.axis = 1 => Get2(M, 1, 2) = s /\ Get2(M, 2, 1) = RNeg(s)
            /\ call.axis = 2 => Get2(M, 2, 0) = s /\ Get2(M, 0, 2) = RNeg(s)
            /\ call.axis = 3 => Get2(M, 0, 1) = s /\ Get2(M, 1, 0) = RNeg(s)

\* the rotation about axis 2 with cosine 3/5 and sine 4/5
C14_Witness ==
    /\ pc = "done"
    /\ call.fn = "rot"
    /\ call.axis = 2
    /\ call.angle = <<3, 4, 5>>
    /\ ret.value = Arr2(<<<<Norm(3, 5), R(0), Norm(-4, 5)>>,
                          <<R(0), R(1), R(0)>>,
                          <<Norm(4, 5), R(0), Norm(3, 5)>>>>)


-----------------------------------------------------------------------------
(* C15 *)

\* the transpose of a 2-D array
Transpose(M) ==
    Arr2([j \in 1..M.shape[2] |-> [i \in 1..M.shape[1] |-> Get2(M, i - 1, j - 1)]])

\* the determinant of a (3,3) array, expanded along its first row
Det3(M) ==
    LET Minor(a, b, c, d) == RSub(RMul(a, d), RMul(b, c))
    IN  RAdd(RSub(RMul(Get2(M, 0, 0),
                       Minor(Get2(M, 1, 1), Get2(M, 1, 2), Get2(M, 2, 1), Get2(M, 2, 2))),
                  RMul(Get2(M, 0, 1),
                       Minor(Get2(M, 1, 0), Get2(M, 1, 2), Get2(M, 2, 0), Get2(M, 2, 2)))),
             RMul(Get2(M, 0, 2),
                  Minor(Get2(M, 1, 0), Get2(M, 1, 1), Get2(M, 2, 0), Get2(M, 2, 1))))

\* the squared length of a 3-vector, or of column j of a (3,k) batch
C15_SquaredLength(a, j) ==
    IF Ndim(a) = 1 THEN Dot11(a, a) ELSE Dot11(Col(a, j), Col(a, j))

\* C15: for every angle and every axis in {1, 2, 3} the matrix R of rot has
\* R . transpose(R) = identity and det(R) = +1, all sines and cosines being
\* exact pairs with c*c + s*s = 1; and rotate_xyz_to_enu returns vectors of
\* the length of its input vectors
C15_Orthogonal ==
    /\ (pc = "done" /\ call.fn = "rot" /\ call.axis \in {1, 2, 3}) =>
          /\ ret.status = "ok"
          /\ np_matmul(ret.value, Transpose(ret.value)) = np_eye3
          /\ np_matmul(Transpose(ret.value), ret.value) = np_eye3
          /\ Det3(ret.value) = R(1)
    /\ (pc = "done" /\ call.fn = "rotate_xyz_to_enu") =>
          /\ ret.status = "ok"
          /\ ret.value.shape = call.xyz.shape
          /\ \A j \in 0..(IF Ndim(call.xyz) = 1 THEN 0 ELSE call.xyz.shape[2] - 1) :
                C15_SquaredLength(ret.value, j) = C15_SquaredLength(call.xyz, j)

\* a rotation about axis 3 by an angle between two quarter turns, whose
\* sine and cosine are both non-zero
C15_Witness ==
    /\ pc = "done"
    /\ call.fn = "rot"
    /\ call.axis = 3
    /\ call.angle = <<-4, 3, 5>>
    /\ Get2(ret.value, 0, 0) = Norm(-4, 5)
    /\ Get2(ret.value, 0, 1) = Norm(3, 5)
    /\ Det3(ret.value) = R(1)


-----------------------------------------------------------------------------
(* C16 *)

\* C16: rot with an axis outside {1, 2, 3} raises the invalid-axis error
\* (ValueError) and returns no matrix; with an axis in {1, 2, 3} it returns a
\* (3,3) matrix and raises nothing
C16_InvalidAxisRaises ==
    (pc = "done" /\ call.fn = "rot") =>
        IF call.axis \in {1, 2, 3}
        THEN ret.status = "ok" /\ ret.value # None /\ ret.value.shape = <<3, 3>>
        ELSE ret.status = "ValueError" /\ ret.value = None

\* rot(90, 0) raises
C16_Witness ==
    /\ pc = "done"
    /\ call.fn = "rot"
    /\ call.axis = 0
    /\ call.in_degrees
    /\ call.angle = R(90)
    /\ ret = Raise("ValueError")


-----------------------------------------------------------------------------
(* C17 *)

\* the zero-based positions of the date d in the sequence s
Positions(s, d) == {i - 1 : i \in {k \in 1..Len(s) : s[k] = d}}

\* the smallest number of a non-empty set of numbers
Min(S) == CHOOSE x \in S : \A y \in S : x <= y

\* the entry of the index map for the date d of the strictly increasing axis
C17_MapAt(indices, axis, d) == indices.flat[Min(Positions(axis, d)) + 1]

\* C17: when a date is in both strictly increasing axes, the merged axis holds
\* it twice, both index maps give the position of its first occurrence, so
\* they agree on it, and no entry of either map is the position of its second
\* occurrence
C17_SharedDates ==
    (/\ pc = "done"
     /\ call.fn = "merge_geolists"
     /\ IsStrictlyIncreasing(call.geolist1)
     /\ IsStrictlyIncreasing(call.geolist2)) =>
        \A d \in Dates :
           (Count(call.geolist1, d) > 0 /\ Count(call.geolist2, d) > 0) =>
              LET where  == Positions(ret.value[1].flat, d)
                  first  == Min(where)
                  second == first + 1
              IN  /\ where = {first, second}
                  /\ C17_MapAt(ret.value[2], call.geolist1, d) = first
                  /\ C17_MapAt(ret.value[3], call.geolist2, d) = first
                  /\ C17_MapAt(ret.value[2], call.geolist1, d) =
                        C17_MapAt(ret.value[3], call.geolist2, d)
                  /\ \A i \in 1..Len(ret.value[2].flat) : ret.value[2].flat[i] # second
                  /\ \A i \in 1..Len(ret.value[3].flat) : ret.value[3].flat[i] # second

\* the date 2 is shared: it stands at positions 1 and 2 of the merged axis and
\* both maps point at position 1
C17_Witness ==
    /\ pc = "done"
    /\ call.fn = "merge_geolists"
    /\ call.geolist1 = <<1, 2>>
    /\ call.geolist2 = <<2, 3>>
    /\ ret.value[1].flat = <<1, 2, 2, 3>>
    /\ ret.value[2].flat = <<0, 1>>
    /\ ret.value[3].flat = <<1, 3>>


-----------------------------------------------------------------------------
(* the whole module: one call of any function *)

Next ==
    \/ NextRot
    \/ NextProj
    \/ NextLookup
    \/ NextDecomp
    \/ NextMerge

Spec == Init /\ [][Next]_vars

=============================================================================
